---- MODULE Spec2Model ----
(***************************************************************************)
(* Model of lennybot's reminder lifecycle: the slot-filling engine         *)
(* (process_reminder_intent, create_reminder) and the due-reminder         *)
(* scheduler (check_due_reminders) of src/src/modules/reminder_handler.py. *)
(* Text is a sequence of one-character strings so that the regular         *)
(* expressions of the source can be evaluated character by character.      *)
(***************************************************************************)
EXTENDS Integers, Sequences, FiniteSets, TLC

\* ------------------------------------------------------------------------
\* Characters and the regular expressions of reminder_handler.py
\* ------------------------------------------------------------------------

UpperChars ==
  <<"A","B","C","D","E","F","G","H","I","J","K","L","M",
    "N","O","P","Q","R","S","T","U","V","W","X","Y","Z">>

LowerChars ==
  <<"a","b","c","d","e","f","g","h","i","j","k","l","m",
    "n","o","p","q","r","s","t","u","v","w","x","y","z">>

DigitChars ==
  <<"0","1","2","3","4","5","6","7","8","9">>

Range(f) == { f[i] : i \in DOMAIN f }

\* str.lower() on one character
LowerCh(c) ==
  IF c \in Range(UpperChars)
    THEN LowerChars[CHOOSE i \in DOMAIN UpperChars : UpperChars[i] = c]
    ELSE c

\* str.lower()
Lower(s) == [ i \in DOMAIN s |-> LowerCh(s[i]) ]

IsDigit(c) == c \in Range(DigitChars)

\* the regex class \w
IsWordCh(c) == c \in Range(UpperChars) \cup Range(LowerChars) \cup Range(DigitChars) \cup {"_"}

\* the regex class \s
IsSpace(c) == c = " "

WordAt(s, p) == p >= 1 /\ p <= Len(s) /\ IsWordCh(s[p])

\* the regex assertion \b, before the character at position p
Boundary(s, p) == WordAt(s, p - 1) # WordAt(s, p)

\* the literal lit starts at position p of s
LitAt(s, p, lit) ==
  /\ p >= 1
  /\ p + Len(lit) - 1 <= Len(s)
  /\ \A i \in 1..Len(lit) : s[p + i - 1] = lit[i]

\* \blit\b matches at position p
BLitB(s, p, lit) == Boundary(s, p) /\ LitAt(s, p, lit) /\ Boundary(s, p + Len(lit))

\* Python's "lit in s"
Contains(s, lit) == \E p \in 1..Len(s) : LitAt(s, p, lit)

L_at == <<"a","t">>
L_in == <<"i","n">>
L_tomorrow == <<"t","o","m","o","r","r","o","w">>
L_today == <<"t","o","d","a","y">>
L_remind_me == <<"r","e","m","i","n","d"," ","m","e">>
L_reminder == <<"r","e","m","i","n","d","e","r">>
L_remind == <<"r","e","m","i","n","d">>
L_minute == <<"m","i","n","u","t","e">>
L_minutes == <<"m","i","n","u","t","e","s">>
L_min == <<"m","i","n">>
L_hour == <<"h","o","u","r">>
L_hours == <<"h","o","u","r","s">>
L_day == <<"d","a","y">>
L_days == <<"d","a","y","s">>

\* number of consecutive characters from position p on that satisfy a class
RECURSIVE DigitRun(_, _)
DigitRun(s, p) ==
  IF p >= 1 /\ p <= Len(s) /\ IsDigit(s[p]) THEN 1 + DigitRun(s, p + 1) ELSE 0

RECURSIVE SpaceRun(_, _)
SpaceRun(s, p) ==
  IF p >= 1 /\ p <= Len(s) /\ IsSpace(s[p]) THEN 1 + SpaceRun(s, p + 1) ELSE 0

\* [ap]m at position p
AmPmAt(s, p) ==
  /\ p >= 1
  /\ p + 1 <= Len(s)
  /\ s[p] \in {"a", "p"}
  /\ s[p + 1] = "m"

\* length matched by [0-9]+(:[0-9]+)?(\s*[ap]m)? at p (greedy), 0 if no digit at p
ClockLen(s, p) ==
  LET d == DigitRun(s, p)
      q == p + d
      c == IF q <= Len(s) /\ s[q] = ":" /\ DigitRun(s, q + 1) > 0
             THEN 1 + DigitRun(s, q + 1) ELSE 0
      r == q + c
      sp == SpaceRun(s, r)
      m == IF AmPmAt(s, r + sp) THEN sp + 2 ELSE 0
  IN  IF d = 0 THEN 0 ELSE d + c + m

\* line 28: re.search(r'\bat\b|\bin\b|tomorrow|today|[0-9]+(:[0-9]+)?(\s*[ap]m)?', s)
HasTimeInfo(s) ==
  \E p \in 1..Len(s) :
    \/ BLitB(s, p, L_at)
    \/ BLitB(s, p, L_in)
    \/ LitAt(s, p, L_tomorrow)
    \/ LitAt(s, p, L_today)
    \/ IsDigit(s[p])

\* length matched at p by (at|in|tomorrow|today|[0-9]+(:[0-9]+)?(\s*[ap]m)?),
\* alternatives tried in this order
TimeAltLen(s, p) ==
  IF LitAt(s, p, L_at) THEN Len(L_at)
  ELSE IF LitAt(s, p, L_in) THEN Len(L_in)
  ELSE IF LitAt(s, p, L_tomorrow) THEN Len(L_tomorrow)
  ELSE IF LitAt(s, p, L_today) THEN Len(L_today)
  ELSE ClockLen(s, p)

TimeMatchStarts(s) == { p \in 1..Len(s) : Boundary(s, p) /\ TimeAltLen(s, p) > 0 }

\* line 41: re.search(r'\b(at|in|tomorrow|today|[0-9]+(:[0-9]+)?(\s*[ap]m)?)', s),
\* group(0) of the leftmost match; the empty text stands for "no match"
TimeMatch(s) ==
  IF TimeMatchStarts(s) = {} THEN <<>>
  ELSE LET p == CHOOSE q \in TimeMatchStarts(s) : \A o \in TimeMatchStarts(s) : q <= o
       IN  SubSeq(s, p, p + TimeAltLen(s, p) - 1)

\* length removed at p by the pattern of line 47:
\* \bremind me\b|\breminder\b|\bat\b.*|\bin\b.*|\btomorrow\b.*|\btoday\b.*
ContentCutLen(s, p) ==
  IF BLitB(s, p, L_remind_me) THEN Len(L_remind_me)
  ELSE IF BLitB(s, p, L_reminder) THEN Len(L_reminder)
  ELSE IF \/ BLitB(s, p, L_at)
          \/ BLitB(s, p, L_in)
          \/ BLitB(s, p, L_tomorrow)
          \/ BLitB(s, p, L_today)
         THEN Len(s) - p + 1
  ELSE 0

\* length removed at p by the pattern of line 120:
\* \bremind me\b|\breminder\b|\bin\b.*|\bminute[s]?\b.*|\bhour[s]?\b.*|\bday[s]?\b.*
LastChanceCutLen(s, p) ==
  IF BLitB(s, p, L_remind_me) THEN Len(L_remind_me)
  ELSE IF BLitB(s, p, L_reminder) THEN Len(L_reminder)
  ELSE IF \/ BLitB(s, p, L_in)
          \/ BLitB(s, p, L_minute) \/ BLitB(s, p, L_minutes)
          \/ BLitB(s, p, L_hour) \/ BLitB(s, p, L_hours)
          \/ BLitB(s, p, L_day) \/ BLitB(s, p, L_days)
         THEN Len(s) - p + 1
  ELSE 0

\* re.sub(pattern, '', orig, flags=re.IGNORECASE) from position p on; low = Lower(orig)
RECURSIVE ContentFrom(_, _, _)
ContentFrom(orig, low, p) ==
  IF p > Len(orig) THEN <<>>
  ELSE IF ContentCutLen(low, p) > 0 THEN ContentFrom(orig, low, p + ContentCutLen(low, p))
  ELSE <<orig[p]>> \o ContentFrom(orig, low, p + 1)

RECURSIVE LastChanceFrom(_, _, _)
LastChanceFrom(orig, low, p) ==
  IF p > Len(orig) THEN <<>>
  ELSE IF LastChanceCutLen(low, p) > 0 THEN LastChanceFrom(orig, low, p + LastChanceCutLen(low, p))
  ELSE <<orig[p]>> \o LastChanceFrom(orig, low, p + 1)

\* str.strip()
RECURSIVE LStrip(_)
LStrip(s) == IF s # <<>> /\ IsSpace(s[1]) THEN LStrip(Tail(s)) ELSE s

RECURSIVE RStrip(_)
RStrip(s) == IF s # <<>> /\ IsSpace(s[Len(s)]) THEN RStrip(SubSeq(s, 1, Len(s) - 1)) ELSE s

Strip(s) == RStrip(LStrip(s))

\* the substitution of line 47 without the strip of line 48
ContentUnstripped(msg) == ContentFrom(msg, Lower(msg), 1)

\* lines 47-48: the content left of a message
Content(msg) == Strip(ContentFrom(msg, Lower(msg), 1))

\* lines 120-121: the content left by the last-chance extraction
LastChanceContent(msg) == Strip(LastChanceFrom(msg, Lower(msg), 1))

\* the characters of a text as one string
RECURSIVE Str(_)
Str(cs) == IF cs = <<>> THEN "" ELSE cs[1] \o Str(Tail(cs))

\* ------------------------------------------------------------------------
\* Values: optional numbers, timestamps, the strings stored in metadata
\* ------------------------------------------------------------------------

\* None, for a value that is a number when present: <<>>; the number n: <<n>>
None == <<>>
Some(n) == <<n>>
IsNone(v) == v = <<>>
Val(v) == v[1]

\* Python truthiness of a text, of an optional number and of a chat id
TruthyText(t) == t # <<>>
TruthyNum(v) == v # <<>> /\ Val(v) # 0

\* str(x) of a number as stored in the metadata, and float(s) reading it back
NumToStr(n) == <<"str", n>>
StrToFloat(s) == s[2]

\* "false" / "true" as stored under "completed"
CompletedFalse == "false"
CompletedTrue == "true"

\* ------------------------------------------------------------------------
\* Texts: the messages users send and the ConfirmationGenerator's answers
\* ------------------------------------------------------------------------

M_team_meeting == <<"t","e","a","m"," ","m","e","e","t","i","n","g">>
M_in_30_minutes == <<"i","n"," ","3","0"," ","m","i","n","u","t","e","s">>
M_5pm == <<"5","p","m">>
M_call_mom_at_5pm == <<"r","e","m","i","n","d"," ","m","e"," ","t","o"," ","c","a","l","l"," ","m","o","m"," ","a","t"," ","5","p","m">>

M_mom_at_5pm == <<"m","o","m"," ","a","t"," ","5","p","m">>
M_today == <<"t","o","d","a","y">>
M_in_a_minute == <<"i","n"," ","a"," ","m","i","n","u","t","e">>
M_meeting_minutes == <<"m","e","e","t","i","n","g"," ","m","i","n","u","t","e","s">>

M_team_meeting_5pm == <<"t","e","a","m"," ","m","e","e","t","i","n","g"," ","5","p","m">>
M_call_mom_6pm == <<"c","a","l","l"," ","m","o","m"," ","6","p","m">>

\* messages that ask for a reminder in one turn
Messages == {M_team_meeting_5pm}

\* messages of the conversations of two chats that go on side by side
ChatMessages == {M_team_meeting, M_in_30_minutes, M_team_meeting_5pm}

\* messages of conversations that fill the slots turn by turn
TurnMessages ==
  {M_team_meeting, M_in_30_minutes, M_5pm, M_call_mom_at_5pm, M_mom_at_5pm, M_today}

\* the original_message of the decisions the decision engine hands to create_reminder
OriginalMessages ==
  {<<>>, M_team_meeting, M_in_30_minutes, M_in_a_minute, M_meeting_minutes}

\* post-processed texts of the ConfirmationGenerator: none, an off-topic one,
\* one of 17 characters that has the keyword, an acceptable one
C_empty == <<>>
C_offtopic == <<"T","h","e"," ","w","e","a","t","h","e","r"," ","i","s"," ","l","o","v","e","l","y"," ","t","o","d","a","y">>
C_short == <<"I"," ","w","i","l","l"," ","r","e","m","i","n","d"," ","y","o","u">>
C_good == <<"S","u","r","e",","," ","I"," ","w","i","l","l"," ","r","e","m","i","n","d"," ","y","o","u"," ","t","h","e","n">>
Confirmations == {C_empty, C_offtopic, C_short, C_good}

\* every message text some specification sends
Texts == Messages \cup TurnMessages \cup OriginalMessages \cup {M_call_mom_6pm}

\* ------------------------------------------------------------------------
\* TimeExpressionExtractor (modules.time_extractor.extract_time)
\* ------------------------------------------------------------------------

SecondsPerMinute == 60
SecondsPerHour == 3600
SecondsPerDay == 86400

DigitValue(c) == (CHOOSE i \in DOMAIN DigitChars : DigitChars[i] = c) - 1

RECURSIVE ParseNat(_)
ParseNat(ds) ==
  IF ds = <<>> THEN 0 ELSE 10 * ParseNat(SubSeq(ds, 1, Len(ds) - 1)) + DigitValue(ds[Len(ds)])

\* "in <n> <unit>" at position p: the seconds it stands for, -1 if it is not there
InDurationAt(s, p) ==
  LET a == p + Len(L_in)
      b == a + SpaceRun(s, a)
      d == DigitRun(s, b)
      c == b + d
      u == c + SpaceRun(s, c)
  IN  IF ~(BLitB(s, p, L_in) /\ SpaceRun(s, a) > 0 /\ d > 0) THEN -1
      ELSE IF LitAt(s, u, L_min) THEN ParseNat(SubSeq(s, b, c - 1)) * SecondsPerMinute
      ELSE IF LitAt(s, u, L_hour) THEN ParseNat(SubSeq(s, b, c - 1)) * SecondsPerHour
      ELSE -1

InDurationStarts(s) == { p \in 1..Len(s) : InDurationAt(s, p) >= 0 }

\* "<h>am" / "<h>pm" at position p: the second of the day, -1 if it is not there
ClockAt(s, p) ==
  LET d == DigitRun(s, p)
      q == p + d
      r == q + SpaceRun(s, q)
      h == ParseNat(SubSeq(s, p, q - 1))
  IN  IF ~(Boundary(s, p) /\ d > 0 /\ AmPmAt(s, r)) THEN -1
      ELSE IF s[r] = "p" THEN ((h % 12) + 12) * SecondsPerHour
      ELSE (h % 12) * SecondsPerHour

ClockStarts(s) == { p \in 1..Len(s) : ClockAt(s, p) >= 0 }

MinOf(S) == CHOOSE x \in S : \A y \in S : x <= y

\* line 113: "in" in message.lower() and any(word in message.lower() for word in [...])
HasDurationCue(message) ==
  /\ Contains(Lower(message), L_in)
  /\ \/ Contains(Lower(message), L_minute)
     \/ Contains(Lower(message), L_min)
     \/ Contains(Lower(message), L_hour)
     \/ Contains(Lower(message), L_day)

\* the time expression found in a text: an offset from the reference ("in"),
\* a second of the day ("clock"), the next day ("tomorrow") or nothing ("none")
ParseTime(text) ==
  LET s == Lower(text)
  IN  IF InDurationStarts(s) # {}
        THEN [kind |-> "in", amount |-> InDurationAt(s, MinOf(InDurationStarts(s))),
              str |-> SubSeq(s, MinOf(InDurationStarts(s)), Len(s))]
      ELSE IF ClockStarts(s) # {}
        THEN [kind |-> "clock", amount |-> ClockAt(s, MinOf(ClockStarts(s))),
              str |-> L_at \o <<" ">> \o SubSeq(s, MinOf(ClockStarts(s)), Len(s))]
      ELSE IF Contains(s, L_tomorrow)
        THEN [kind |-> "tomorrow", amount |-> SecondsPerDay, str |-> L_tomorrow]
      ELSE [kind |-> "none", amount |-> 0, str |-> <<>>]

\* what the regular expressions and the extractor find in a message: lines 28,
\* 41-48, 113 and 120-121, and the time expression of the message and of its
\* time match
Analysis(message) ==
  [has_time_info |-> HasTimeInfo(Lower(message)),
   time_part |-> TimeMatch(Lower(message)),
   content |-> Content(message),
   cue |-> HasDurationCue(message),
   last_content |-> LastChanceContent(message),
   parsed |-> ParseTime(message),
   parsed_part |-> ParseTime(TimeMatch(Lower(message)))]

\* the analysis of the texts the specifications send, computed once
AnalysisTable == [ m \in Texts |-> Analysis(m) ]

Analyse(message) == AnalysisTable[message]

\* the due time of a parsed time expression: a clock time already past is
\* taken for the next day's
Resolve(parsed, ref) ==
  IF parsed.kind = "none" THEN [due |-> None, str |-> <<>>]
  ELSE IF parsed.kind = "clock"
    THEN LET t == (ref - (ref % SecondsPerDay)) + parsed.amount
         IN  [due |-> Some(IF t > ref THEN t ELSE t + SecondsPerDay), str |-> parsed.str]
  ELSE [due |-> Some(ref + parsed.amount), str |-> parsed.str]

\* extract_time(text, reference): [due |-> optional timestamp, str |-> display text];
\* due = None and an empty display text signal that nothing was found
ExtractTime(text, ref) == Resolve(ParseTime(text), ref)

\* ------------------------------------------------------------------------
\* ConversationState (modules.user_interaction) and the Decision
\* ------------------------------------------------------------------------

SlotNames == {"time_info", "due_time", "time_str", "reminder_message"}

\* a dict of slots: keys is the set of keys present, an absent key holds the default
EmptyDetails ==
  [keys |-> {}, time_info |-> <<>>, due_time |-> None, time_str |-> <<>>,
   reminder_message |-> <<>>]

\* no ConversationState for a chat
NoState == [active |-> FALSE, intent |-> "", details |-> EmptyDetails, turns |-> 0]

\* update_conversation_state(chat_id, intent, details, increment_turn) on one
\* chat's state: intent None (the empty string here) clears it
UpdateConversationState(cur, intent, details, increment_turn) ==
  IF intent = "" THEN NoState
  ELSE [active |-> TRUE, intent |-> intent, details |-> details,
        turns |-> cur.turns + (IF increment_turn THEN 1 ELSE 0)]

\* lines 31-37: the decision dict before any slot is set
BaseDecision(chat_id, user_name, message, timestamp) ==
  [keys |-> {"intent", "original_message", "user_id", "user_name", "timestamp"},
   intent |-> "reminder", original_message |-> message, user_id |-> Some(chat_id),
   user_name |-> user_name, timestamp |-> Some(timestamp),
   time_info |-> <<>>, due_time |-> None, time_str |-> <<>>,
   reminder_message |-> <<>>, ready_to_create |-> FALSE]

\* line 25: current_state.get("details", {}) if current_state else {}
Details(cur) == IF cur.active THEN cur.details ELSE EmptyDetails

\* lines 52-68: the message has a time match and enough content; base is the
\* decision of lines 31-37, ext the extractor's result for the time match
SingleTurn(base, cur, time_part, ext, content) ==
  [decision |->
     [base EXCEPT
        !.keys = @ \cup SlotNames \cup {"ready_to_create"},
        !.time_info = time_part, !.due_time = ext.due, !.time_str = ext.str,
        !.reminder_message = content, !.ready_to_create = TRUE],
   state |->
     UpdateConversationState(cur, "reminder",
       [keys |-> SlotNames, time_info |-> time_part, due_time |-> ext.due,
        time_str |-> ext.str, reminder_message |-> content], FALSE)]

\* lines 82-84: the stored slots already hold a reminder_message
HasStoredMessage(reminder_details) ==
  "reminder_message" \in reminder_details.keys /\ TruthyText(reminder_details.reminder_message)

\* lines 71-84 and 98: the message carries the time slot; ext is the
\* extractor's result for the whole message
TimeSlot(base, cur, message, ext, reminder_details) ==
  [decision |->
     [base EXCEPT
        !.keys = @ \cup {"time_info", "due_time", "time_str"}
                   \cup (IF HasStoredMessage(reminder_details)
                           THEN {"reminder_message", "ready_to_create"} ELSE {}),
        !.time_info = message, !.due_time = ext.due, !.time_str = ext.str,
        !.reminder_message = IF HasStoredMessage(reminder_details)
                               THEN reminder_details.reminder_message ELSE @,
        !.ready_to_create = HasStoredMessage(reminder_details)],
   state |->
     UpdateConversationState(cur, "reminder",
       [reminder_details EXCEPT
          !.keys = @ \cup {"time_info", "due_time", "time_str"},
          !.time_info = message, !.due_time = ext.due, !.time_str = ext.str], TRUE)]

\* lines 91-95: the stored slots already hold a time_info
HasStoredTime(reminder_details) ==
  "time_info" \in reminder_details.keys /\ TruthyText(reminder_details.time_info)

\* lines 85-98: the message is the content slot
ContentSlot(base, cur, message, reminder_details) ==
  [decision |->
     [base EXCEPT
        !.keys = @ \cup {"reminder_message"}
                   \cup (IF HasStoredTime(reminder_details)
                           THEN {"time_info", "due_time", "time_str", "ready_to_create"}
                           ELSE {}),
        !.reminder_message = message,
        !.time_info = IF HasStoredTime(reminder_details) THEN reminder_details.time_info ELSE @,
        !.due_time = IF HasStoredTime(reminder_details) THEN reminder_details.due_time ELSE @,
        !.time_str = IF HasStoredTime(reminder_details) THEN reminder_details.time_str ELSE @,
        !.ready_to_create = HasStoredTime(reminder_details)],
   state |->
     UpdateConversationState(cur, "reminder",
       [reminder_details EXCEPT
          !.keys = @ \cup {"reminder_message"}, !.reminder_message = message], TRUE)]

\* line 50: content and len(content) > 2
MinContentLen == 2

\* a threshold one character higher
EnoughContentLonger(content) == TruthyText(content) /\ Len(content) > MinContentLen + 1

EnoughContent(content) == TruthyText(content) /\ Len(content) > MinContentLen

\* lines 39-100, a being what the regular expressions and the extractor find
\* in the message
Fill(chat_id, user_name, message, timestamp, cur, a) ==
  IF a.has_time_info /\ a.time_part # <<>> /\ EnoughContent(a.content)
    THEN SingleTurn(BaseDecision(chat_id, user_name, message, timestamp), cur,
                    a.time_part, Resolve(a.parsed_part, timestamp), a.content)
  ELSE IF a.has_time_info
    THEN TimeSlot(BaseDecision(chat_id, user_name, message, timestamp), cur,
                  message, Resolve(a.parsed, timestamp), Details(cur))
  ELSE ContentSlot(BaseDecision(chat_id, user_name, message, timestamp), cur,
                   message, Details(cur))

\* process_reminder_intent(chat_id, user_name, message) at time timestamp with
\* cur the chat's ConversationState: [decision, state], the decision returned
\* and the chat's ConversationState afterwards
ProcessReminderIntent(chat_id, user_name, message, timestamp, cur) ==
  Fill(chat_id, user_name, message, timestamp, cur, Analyse(message))

\* ------------------------------------------------------------------------
\* ReminderStore (the Chroma collection of modules.database) and create_reminder
\* ------------------------------------------------------------------------

\* line 148: f"reminder-{chat_id}-{int(timestamp)}"; the model's clock counts
\* whole seconds, so int() leaves the timestamp as it is
ReminderId(chat_id, timestamp) == <<"reminder", chat_id, timestamp>>

\* lines 152-164: the record handed to reminder_collection.add
NewRecord(chat_id, user_name, reminder_message, timestamp, due_time, time_str) ==
  [id |-> ReminderId(chat_id, timestamp), document |-> reminder_message,
   chat_id |-> NumToStr(chat_id), user_name |-> user_name,
   created_at |-> NumToStr(timestamp), message |-> reminder_message,
   due_at |-> NumToStr(due_time), time_str |-> time_str,
   completed |-> CompletedFalse]

StoreIds(st) == { st[i].id : i \in DOMAIN st }

\* collection.add: a record whose id the collection already holds is not added
StoreAdd(st, rec) == IF rec.id \in StoreIds(st) THEN st ELSE Append(st, rec)

\* line 109: decision.get("original_message", "")
OriginalMessage(decision) ==
  IF "original_message" \in decision.keys THEN decision.original_message ELSE <<>>

\* lines 110 and 140: decision.get("timestamp", time.time())
TimestampOf(decision, now) ==
  IF "timestamp" \in decision.keys THEN Val(decision.timestamp) ELSE now

\* lines 113-125: the last-chance extraction on a decision that is not ready;
\* ext is the extractor's result for the original message, content what line
\* 120 leaves of it
Extracted(decision, ext, content) ==
  [decision EXCEPT
     !.keys = @ \cup {"due_time", "time_str"}
                \cup (IF EnoughContent(content)
                        THEN {"reminder_message", "ready_to_create"} ELSE {}),
     !.due_time = ext.due, !.time_str = ext.str,
     !.reminder_message = IF EnoughContent(content) THEN content ELSE @,
     !.ready_to_create = EnoughContent(content)]

\* lines 107-125, a being what the regular expressions and the extractor find
\* in the original message
LastChanceOn(decision, timestamp, a) ==
  IF decision.ready_to_create \/ ~a.cue THEN decision
  ELSE Extracted(decision, Resolve(a.parsed, timestamp), a.last_content)

\* lines 107-125: the decision after the last-chance extraction; now is time.time()
LastChance(decision, now) ==
  LastChanceOn(decision, TimestampOf(decision, now), Analyse(OriginalMessage(decision)))

\* a report that takes the time for missing when either of its keys is
MissingEither(decision) ==
  (IF "time_info" \notin decision.keys \/ "due_time" \notin decision.keys
     THEN <<"time">> ELSE <<>>)
  \o (IF "reminder_message" \notin decision.keys THEN <<"message">> ELSE <<>>)

\* lines 129-133
Missing(decision) ==
  (IF "time_info" \notin decision.keys /\ "due_time" \notin decision.keys
     THEN <<"time">> ELSE <<>>)
  \o (IF "reminder_message" \notin decision.keys THEN <<"message">> ELSE <<>>)

\* ', '.join(items)
RECURSIVE JoinComma(_)
JoinComma(items) ==
  IF items = <<>> THEN ""
  ELSE IF Len(items) = 1 THEN items[1]
  ELSE items[1] \o ", " \o JoinComma(Tail(items))

\* line 135
MissingText(decision) == "Can't create reminder yet. Missing: " \o JoinComma(Missing(decision))

\* line 145
EssentialText == "Missing essential reminder information"

\* line 211
RetryText == "I had trouble setting that reminder. Please try again."

TwoDigits(n) == DigitChars[(n \div 10) + 1] \o DigitChars[(n % 10) + 1]

\* lines 167: due_dt.strftime('%I:%M %p'), the clock read as UTC
FormatClock(t) ==
  LET h == (t % SecondsPerDay) \div SecondsPerHour
      m == (t % SecondsPerHour) \div SecondsPerMinute
      h12 == IF h % 12 = 0 THEN 12 ELSE h % 12
  IN  TwoDigits(h12) \o ":" \o TwoDigits(m) \o " " \o (IF h < 12 THEN "AM" ELSE "PM")

\* line 168
TimePhrase(due_time, time_str) ==
  IF Contains(time_str, L_at) THEN "at " \o FormatClock(due_time) ELSE Str(time_str)

\* line 214; the check-mark emoji that opens the text is left out
TemplateText(reminder_message, time_phrase) ==
  "I'll remind you about '" \o Str(reminder_message) \o "' " \o time_phrase \o "."

\* line 187: due_time - time.time() > 60
ConfirmLead == 60

\* line 206: len(confirmation) > 20
ConfirmMinLen == 20

\* line 206: confirmation and "remind" in confirmation.lower() and len(confirmation) > 20
AcceptConfirmation(confirmation) ==
  /\ TruthyText(confirmation)
  /\ Contains(Lower(confirmation), L_remind)
  /\ Len(confirmation) > ConfirmMinLen

\* The steps of create_reminder that can raise inside its try block, in the
\* order the code takes them: the add to the store (line 152), the clearing
\* of the ConversationState (line 173), the event log (line 177) and the
\* ConfirmationGenerator (lines 189-203).
CreateFaults == {"none", "add", "state", "log", "llm"}

\* a check that leaves the reminder_message out
EssentialNoMessage(d) ==
  /\ "user_id" \in d.keys /\ TruthyNum(d.user_id)
  /\ "due_time" \in d.keys /\ TruthyNum(d.due_time)

\* lines 137-145: all([chat_id, reminder_message, due_time])
Essential(d) ==
  /\ "user_id" \in d.keys /\ TruthyNum(d.user_id)
  /\ "reminder_message" \in d.keys /\ TruthyText(d.reminder_message)
  /\ "due_time" \in d.keys /\ TruthyNum(d.due_time)

\* lines 137-142 and 152-164: the record the decision asks for
RecordOf(d, now) ==
  NewRecord(Val(d.user_id),
            IF "user_name" \in d.keys THEN d.user_name ELSE "User",
            d.reminder_message, TimestampOf(d, now), Val(d.due_time),
            IF "time_str" \in d.keys THEN d.time_str ELSE <<>>)

\* a test that also asks for a reminder due in exactly 60 seconds
AskedInclusive(d, now) == Val(d.due_time) - now >= ConfirmLead

\* line 187: due_time - time.time() > 60, the ConfirmationGenerator is asked
Asked(d, now) == Val(d.due_time) - now > ConfirmLead

\* lines 167-214: the text returned when nothing raises
SuccessText(d, now, confirmation) ==
  IF Asked(d, now) /\ AcceptConfirmation(confirmation)
    THEN Str(confirmation)
    ELSE TemplateText(d.reminder_message,
                      TimePhrase(Val(d.due_time),
                                 IF "time_str" \in d.keys THEN d.time_str ELSE <<>>))

\* a call that clears the ConversationState before it writes the record
PersistClearingFirst(d, now, st, added, cur, fault, confirmation) ==
  [success |-> fault = "none",
   text |-> IF fault = "none" THEN SuccessText(d, now, confirmation) ELSE RetryText,
   store |-> IF fault = "add" THEN st ELSE added,
   state |-> UpdateConversationState(cur, "", EmptyDetails, FALSE),
   asked |-> fault \in {"none", "llm"} /\ Asked(d, now),
   generated |-> IF fault = "none" /\ Asked(d, now) THEN <<confirmation>> ELSE <<>>]

\* lines 150-214: the try block and the fallback, for a decision d that has
\* the essential fields; added is the store after line 152, fault names the
\* step that raises, confirmation is the post-processed text of the
\* ConfirmationGenerator
\* asked tells whether the call reached the ConfirmationGenerator (line 197)
\* and generated holds the text it got from it, if any
Persist(d, now, st, added, cur, fault, confirmation) ==
  IF fault = "add"
    THEN [success |-> FALSE, text |-> RetryText, store |-> st, state |-> cur,
          asked |-> FALSE, generated |-> <<>>]
  ELSE IF fault = "state"
    THEN [success |-> FALSE, text |-> RetryText, store |-> added, state |-> cur,
          asked |-> FALSE, generated |-> <<>>]
  ELSE IF fault = "log"
    THEN [success |-> FALSE, text |-> RetryText, store |-> added,
          state |-> UpdateConversationState(cur, "", EmptyDetails, FALSE),
          asked |-> FALSE, generated |-> <<>>]
  ELSE IF fault = "llm" /\ Asked(d, now)
    THEN [success |-> FALSE, text |-> RetryText, store |-> added,
          state |-> UpdateConversationState(cur, "", EmptyDetails, FALSE),
          asked |-> TRUE, generated |-> <<>>]
  ELSE [success |-> TRUE, text |-> SuccessText(d, now, confirmation),
        store |-> added,
        state |-> UpdateConversationState(cur, "", EmptyDetails, FALSE),
        asked |-> Asked(d, now),
        generated |-> IF Asked(d, now) THEN <<confirmation>> ELSE <<>>]

\* lines 128-214, on the decision d the last-chance extraction has left
Conclude(d, now, st, cur, fault, confirmation) ==
  IF ~d.ready_to_create
    THEN [success |-> FALSE, text |-> MissingText(d), store |-> st, state |-> cur,
          asked |-> FALSE, generated |-> <<>>]
  ELSE IF ~Essential(d)
    THEN [success |-> FALSE, text |-> EssentialText, store |-> st, state |-> cur,
          asked |-> FALSE, generated |-> <<>>]
  ELSE Persist(d, now, st, StoreAdd(st, RecordOf(d, now)), cur, fault, confirmation)

\* the faults a call can meet on the decision d the last-chance extraction
\* has left, and the confirmations it can get
FaultsFor(d, now) ==
  IF ~(d.ready_to_create /\ Essential(d)) THEN {"none"}
  ELSE IF ~Asked(d, now) THEN CreateFaults \ {"llm"}
  ELSE CreateFaults

ConfirmationsFor(d, now) ==
  IF d.ready_to_create /\ Essential(d) /\ Asked(d, now) THEN Confirmations ELSE {C_empty}

\* create_reminder(decision) at time now, with st the ReminderStore and cur the
\* ConversationState of the decision's chat: [success, text] returned and the
\* store and that chat's state afterwards
CreateReminder(decision, now, st, cur, fault, confirmation) ==
  Conclude(LastChance(decision, now), now, st, cur, fault, confirmation)

\* ------------------------------------------------------------------------
\* check_due_reminders
\* ------------------------------------------------------------------------

\* a read that leaves the where filter out
IncompleteUnfiltered(st) == st

\* line 222: reminder_collection.get(where={"completed": "false"}), in store order
Incomplete(st) == SelectSeq(st, LAMBDA r : r.completed = CompletedFalse)

\* a comparison that misses the record due at this very second
IsDueStrict(rec, current_time) == StrToFloat(rec.due_at) < current_time

\* line 236: float(metadata['due_at']) <= current_time
IsDue(rec, current_time) == StrToFloat(rec.due_at) <= current_time

\* lines 237-242
DueEntry(rec) ==
  [id |-> rec.id, chat_id |-> rec.chat_id, message |-> rec.document,
   user_name |-> rec.user_name]

\* lines 245-248: collection.update(ids=[id], metadatas=[{**metadata, "completed": "true"}]),
\* metadata being the poll's copy of the record; the document is not written
StoreUpdate(st, rec) ==
  [ i \in DOMAIN st |->
      IF st[i].id = rec.id
        THEN [rec EXCEPT !.completed = CompletedTrue, !.document = st[i].document]
        ELSE st[i] ]

\* ------------------------------------------------------------------------
\* MessageStore (the history collection of modules.database) and
\* get_time_window_context of src/src/modules/conversation_context.py
\* ------------------------------------------------------------------------

\* action_executor.py line 105: f"pin-{chat_id}-{int(timestamp)}"
PinId(chat_id, timestamp) == <<"pin", chat_id, timestamp>>

\* action_executor.py lines 110-119: the record of an inbound message
UserRecord(chat_id, user_name, user_message, timestamp) ==
  [id |-> PinId(chat_id, timestamp), document |-> user_message,
   chat_id |-> NumToStr(chat_id), user_name |-> <<user_name>>,
   timestamp |-> NumToStr(timestamp), is_user |-> "true"]

\* action_executor.py lines 194-201: the record of a reply, which has no
\* user_name; n stands for the uuid4 of its id
ReplyRecord(chat_id, message, timestamp, n) ==
  [id |-> <<"reply", n>>, document |-> message,
   chat_id |-> NumToStr(chat_id), user_name |-> <<>>,
   timestamp |-> NumToStr(timestamp), is_user |-> "false"]

\* history_collection.add of the record rec: the collection keeps one record
\* for an id and does not store a second one under an id it holds
HistoryAdd(h, rec) ==
  IF \E i \in DOMAIN h : h[i].id = rec.id THEN h ELSE Append(h, rec)

\* action_executor.py line 285: the reply of the handler of line 275
FallbackText == "I'm having trouble processing that. Let me know if you'd like to try again."

\* The steps of execute_action that can raise before the reminder is
\* created: none, or the typing indicator of line 124.
ExecuteFaults == {"none", "typing"}

\* collection.get(where={"chat_id": chat_id_str}), in store order
OfChat(st, chat_id_str) == SelectSeq(st, LAMBDA r : r.chat_id = chat_id_str)

\* conversation_context.py line 137
CutoffTime(current_time, minutes) == current_time - (minutes * SecondsPerMinute)

\* lines 157-168: the context item of a message record
MessageItem(rec) ==
  [time |-> StrToFloat(rec.timestamp), type |-> "message",
   user |-> IF rec.is_user = "true"
              THEN (IF rec.user_name # <<>> THEN rec.user_name[1] ELSE "User")
              ELSE "LennyBot",
   is_user |-> rec.is_user = "true", id |-> <<>>, text |-> rec.document]

\* lines 184-191: the context item of a reminder record
ReminderItem(rec) ==
  [time |-> StrToFloat(rec.created_at), type |-> "reminder", user |-> "",
   is_user |-> FALSE, id |-> rec.id, text |-> rec.document]

\* lines 150-170: the items of the message records read
MessageItems(recs, cutoff_time) ==
  LET kept == SelectSeq(recs, LAMBDA r : StrToFloat(r.timestamp) >= cutoff_time)
  IN  [ k \in DOMAIN kept |-> MessageItem(kept[k]) ]

\* lines 177-193: the items of the reminder records read
ReminderItems(recs, cutoff_time) ==
  LET kept == SelectSeq(recs, LAMBDA r : StrToFloat(r.created_at) >= cutoff_time)
  IN  [ k \in DOMAIN kept |-> ReminderItem(kept[k]) ]

\* list.sort(key=lambda x: x['time']), which is stable: x is put behind the
\* items of the sorted list s whose time is not later than its own
RECURSIVE InsertByTime(_, _)
InsertByTime(s, x) ==
  IF s = <<>> THEN <<x>>
  ELSE IF s[Len(s)].time <= x.time THEN Append(s, x)
  ELSE Append(InsertByTime(SubSeq(s, 1, Len(s) - 1), x), s[Len(s)])

\* a narrative that keeps the items as they were collected
Unsorted(items) == items

\* line 196
RECURSIVE SortByTime(_)
SortByTime(items) ==
  IF items = <<>> THEN <<>>
  ELSE InsertByTime(SortByTime(SubSeq(items, 1, Len(items) - 1)), items[Len(items)])

\* lines 200, 203 and 215
NoContextText == "No recent context available."
ContextHeader == "Recent conversation and activity:"
ErrorContextText == "Error retrieving context."

\* lines 205-209: the line of an item
ItemLine(item) ==
  IF item.type = "message"
    THEN (IF item.is_user THEN item.user \o ": " ELSE "LennyBot: ") \o Str(item.text)
    ELSE "[System] Reminder set: " \o Str(item.text)

\* lines 199-211: the text returned for the sorted items, as the sequence of
\* its lines
Narrative(items) ==
  IF items = <<>> THEN <<NoContextText>>
  ELSE <<ContextHeader>> \o [ k \in DOMAIN items |-> ItemLine(items[k]) ]

\* The steps of get_time_window_context that can raise inside its try block:
\* the read of the message records (line 146) and of the reminder records
\* (line 173).
ContextFaults == {"none", "get"}

\* ------------------------------------------------------------------------
\* Inputs and bounds
\* ------------------------------------------------------------------------

Chats == {1, 2}

\* update.effective_user.first_name of each chat
UserName(c) == IF c = 1 THEN "Ann" ELSE "Bob"

\* the poll cycles that may overlap, and the one of the scheduler's loop
Pollers == {1, 2}
Schedulers == {1}

\* the chat of the specifications that follow one conversation
OneChat == {1}

\* the clock starts at 16:30 of day 0 and advances by half an hour at a time
StartTime == 59400
TickStep == 1800
MaxTicks == 1
MaxTime == StartTime + MaxTicks * TickStep

\* records the store holds at most, turns of one fill at most
MaxReminders == 2
MaxTurns == 2

\* records the MessageStore holds at most
MaxMessages == 2

\* turns execute_action handles at most
MaxHandled == 2

\* the windows asked of get_time_window_context, in minutes: its default and
\* one that reaches back one advance of the clock
DefaultWindow == 10
WindowMinutes == {DefaultWindow, TickStep \div SecondsPerMinute}

\* "You don't have any active reminders.", a reply of action_executor.py line 159
R_no_reminders == <<"Y","o","u"," ","d","o","n","'","t"," ","h","a","v","e"," ","a","n","y"," ","a","c","t","i","v","e"," ","r","e","m","i","n","d","e","r","s",".">>
ReplyTexts == {R_no_reminders}

\* The dicts the decision engine can hand to create_reminder without going
\* through process_reminder_intent: each of ready_to_create, user_id,
\* reminder_message, due_time and time_info present or absent, the timestamp
\* and the user name left out.
CallerDecision(ready, uid, msg, due, info, orig) ==
  [keys |-> {"intent", "original_message"}
              \cup (IF ready THEN {"ready_to_create"} ELSE {})
              \cup (IF uid # None THEN {"user_id"} ELSE {})
              \cup (IF msg[1] THEN {"reminder_message"} ELSE {})
              \cup (IF due[1] THEN {"due_time"} ELSE {})
              \cup (IF info # <<>> THEN {"time_info"} ELSE {}),
   intent |-> "reminder", original_message |-> orig, user_id |-> uid,
   user_name |-> "", timestamp |-> None, time_info |-> info, due_time |-> due[2],
   time_str |-> <<>>, reminder_message |-> msg[2], ready_to_create |-> ready]

CallerDecisions ==
  { CallerDecision(ready, uid, msg, due, info, orig) :
      ready \in BOOLEAN, uid \in {None, Some(1)},
      msg \in {<<FALSE, <<>>>>, <<TRUE, <<>>>>, <<TRUE, M_team_meeting>>},
      due \in {<<FALSE, None>>, <<TRUE, None>>, <<TRUE, Some(StartTime + ConfirmLead)>>,
               <<TRUE, Some(StartTime + TickStep)>>},
      info \in {<<>>, M_5pm}, orig \in OriginalMessages }

\* a ConversationState left by an earlier turn
FilledState ==
  [active |-> TRUE, intent |-> "reminder",
   details |-> [EmptyDetails EXCEPT !.keys = {"reminder_message"},
                                    !.reminder_message = M_team_meeting],
   turns |-> 1]

\* the instants the clock takes and the ids a record can have
Times == { StartTime + k * TickStep : k \in 0..MaxTicks }
AllIds == { ReminderId(c, t) : c \in Chats, t \in Times }

\* ------------------------------------------------------------------------
\* State
\* ------------------------------------------------------------------------

VARIABLES
  now,        \* time.time()
  conv,       \* ConversationStateStore: chat id -> ConversationState
  pending,    \* chat id -> the decision process last returned to the caller
  hist,       \* chat id -> the messages processed since the chat had no state
  outcome,    \* the create_reminder call that has just returned, for the calls
              \* the caller makes as a step of their own
  store,      \* ReminderStore: the records, in insertion order
  poll,       \* poller -> the locals of its running check_due_reminders
  lastDone,   \* the last check_due_reminders call that returned, kept while
              \* nobody writes to the store and the clock stands still: what it
              \* handed to its caller, the store it read and the store it left
  delivered,  \* reminder id -> number of polls that returned it
  history,    \* MessageStore: the records, in insertion order
  ctx,        \* the locals of the get_time_window_context call that runs or
              \* has just returned, with the stores as it read them
  replies     \* the replies execute_action has sent, one for each turn handled

vars == <<now, conv, pending, hist, outcome, store, poll, lastDone, delivered,
          history, ctx, replies>>

\* the state of the reminder flow and of the scheduler
reminderVars == <<conv, pending, hist, outcome, store, poll, lastDone, delivered>>

NoDecision == [has |-> FALSE, d |-> BaseDecision(0, "", <<>>, 0)]

NoOutcome ==
  [has |-> FALSE, chat |-> 0, d |-> BaseDecision(0, "", <<>>, 0), turns |-> <<>>,
   fault |-> "none", now |-> 0, success |-> FALSE, text |-> "",
   storeBefore |-> <<>>, storeAfter |-> <<>>, stateBefore |-> NoState,
   stateAfter |-> NoState, asked |-> FALSE, generated |-> <<>>]

IdlePoll ==
  [pc |-> "idle", current_time |-> 0, results |-> <<>>, i |-> 1, due_reminders |-> <<>>,
   failed |-> FALSE, alone |-> TRUE, atRead |-> <<>>, prev |-> <<>>]

IdleContext ==
  [pc |-> "idle", chat_id |-> 0, current_time |-> 0, cutoff_time |-> 0,
   context_items |-> <<>>, items |-> <<>>, failed |-> FALSE, raised |-> FALSE,
   ret |-> <<>>, historyRead |-> <<>>, remindersRead |-> <<>>]

NoPoll ==
  [has |-> FALSE, raised |-> FALSE, ret |-> <<>>, failed |-> FALSE, now |-> 0,
   atRead |-> <<>>, atReturn |-> <<>>, alone |-> TRUE, prev |-> <<>>]

Init ==
  /\ now = StartTime
  /\ conv = [c \in Chats |-> NoState]
  /\ pending = [c \in Chats |-> NoDecision]
  /\ hist = [c \in Chats |-> <<>>]
  /\ outcome = NoOutcome
  /\ store = <<>>
  /\ poll = [p \in Pollers |-> IdlePoll]
  /\ lastDone = NoPoll
  /\ delivered = [id \in AllIds |-> 0]
  /\ history = <<>>
  /\ ctx = IdleContext
  /\ replies = <<>>

\* chat 1 has a ConversationState or none, and the caller holds a decision
\* of the decision engine for it
InitCreate ==
  /\ now = StartTime
  /\ conv \in { [c \in Chats |-> IF c = 1 THEN cs ELSE NoState] : cs \in {NoState, FilledState} }
  /\ pending \in { [c \in Chats |-> IF c = 1 THEN [has |-> TRUE, d |-> d] ELSE NoDecision] :
                     d \in CallerDecisions }
  /\ hist = [c \in Chats |-> <<>>]
  /\ outcome = NoOutcome
  /\ store = <<>>
  /\ poll = [p \in Pollers |-> IdlePoll]
  /\ lastDone = NoPoll
  /\ delivered = [id \in AllIds |-> 0]
  /\ history = <<>>
  /\ ctx = IdleContext
  /\ replies = <<>>

\* a write to the store by someone other than poller p: the running polls
\* other than p no longer have the store to themselves
Disturb(pl, p) ==
  [ q \in DOMAIN pl |-> IF q # p /\ pl[q].pc # "idle" THEN [pl[q] EXCEPT !.alone = FALSE]
                        ELSE pl[q] ]

\* ------------------------------------------------------------------------
\* Actions
\* ------------------------------------------------------------------------

\* the clock advances
Tick ==
  /\ now < MaxTime
  /\ now' = now + TickStep
  /\ outcome' = NoOutcome
  /\ lastDone' = NoPoll
  /\ UNCHANGED <<replies, history, ctx, conv, pending, hist, store, poll, delivered>>

\* a store that keeps one ConversationState for all chats
ProcessedShared(c, m, r) ==
  /\ conv' = [c2 \in Chats |-> r.state]
  /\ pending' = [pending EXCEPT ![c] = [has |-> TRUE, d |-> r.decision]]
  /\ hist' = [hist EXCEPT ![c] = Append(@, m)]

\* the caller holds the decision r.decision and chat c's state is r.state
Processed(c, m, r) ==
  /\ conv' = [conv EXCEPT ![c] = r.state]
  /\ pending' = [pending EXCEPT ![c] = [has |-> TRUE, d |-> r.decision]]
  /\ hist' = [hist EXCEPT ![c] = Append(@, m)]

\* process_reminder_intent(c, UserName(c), m)
Process(c, m) ==
  /\ Len(hist[c]) < MaxTurns
  /\ Processed(c, m, ProcessReminderIntent(c, UserName(c), m, now, conv[c]))
  /\ outcome' = NoOutcome
  /\ UNCHANGED <<replies, history, ctx, now, store, poll, lastDone, delivered>>

\* create_reminder(d) has returned k for chat c, whose state was cur and
\* whose turns were the messages turns; the call is kept in outcome when it
\* is observed
Created(c, d, turns, cur, fault, k, observed) ==
  /\ store' = k.store
  /\ conv' = [conv EXCEPT ![c] = k.state]
  /\ hist' = [hist EXCEPT ![c] = IF k.state.active THEN turns ELSE <<>>]
  /\ outcome' = IF observed
                  THEN [has |-> TRUE, chat |-> c, d |-> d, turns |-> turns,
                        fault |-> fault, now |-> now, success |-> k.success,
                        text |-> k.text, storeBefore |-> store, storeAfter |-> k.store,
                        stateBefore |-> cur, stateAfter |-> k.state,
                        asked |-> k.asked, generated |-> k.generated]
                  ELSE NoOutcome
  /\ poll' = IF k.store # store THEN Disturb(poll, 0) ELSE poll
  /\ lastDone' = IF k.store # store THEN NoPoll ELSE lastDone

\* lines 128-214 of create_reminder(d) for chat c, lc being d after the
\* last-chance extraction, with the fault and the confirmation the call meets
Concluded(c, d, turns, cur, lc, observed) ==
  \E fault \in FaultsFor(lc, now) :
  \E confirmation \in ConfirmationsFor(lc, now) :
    Created(c, d, turns, cur, fault,
            Conclude(lc, now, store, cur, fault, confirmation), observed)

\* create_reminder(d) for chat c, d being the decision process returned for
\* the messages turns
Create(c, d, turns) ==
  /\ Len(store) < MaxReminders
  /\ Concluded(c, d, turns, conv[c], LastChance(d, now), TRUE)
  /\ pending' = [pending EXCEPT ![c] = NoDecision]
  /\ UNCHANGED <<replies, history, ctx, now, delivered>>

\* the caller hands the decision process returned to create_reminder
CreatePending(c) ==
  /\ pending[c].has
  /\ Create(c, pending[c].d, hist[c])

\* create_reminder on what process_reminder_intent returned for message m
Handled(c, m, r) ==
  Concluded(c, r.decision, Append(hist[c], m), r.state, LastChance(r.decision, now), FALSE)

\* an inbound message asking for a reminder is handled: process_reminder_intent,
\* then create_reminder on the decision it returned
Handle(c, m) ==
  /\ Len(hist[c]) < MaxTurns
  /\ Len(store) < MaxReminders
  /\ Handled(c, m, ProcessReminderIntent(c, UserName(c), m, now, conv[c]))
  /\ UNCHANGED <<replies, history, ctx, now, pending, delivered>>

\* The steps of check_due_reminders that can raise inside its try block: the
\* read of the incomplete records (line 222), the update that marks a record
\* completed (line 245) and the event log (line 252).
PollFaults == {"none", "get", "update", "log"}

\* what a poll that starts keeps of the call that returned just before it
Earlier(done) ==
  IF done.has
    THEN <<[ret |-> done.ret, failed |-> done.failed, now |-> done.now,
            atRead |-> done.atRead, atReturn |-> done.atReturn]>>
    ELSE <<>>

\* lines 218-227: the clock is read, then the incomplete records
PollRead(p, fault) ==
  /\ poll[p].pc = "idle"
  /\ fault \in {"none", "get"}
  /\ poll' = [poll EXCEPT ![p] =
                [pc |-> IF fault = "get" THEN "failed" ELSE "scan",
                 current_time |-> now,
                 results |-> IF fault = "get" THEN <<>> ELSE Incomplete(store),
                 i |-> 1, due_reminders |-> <<>>, failed |-> fault = "get",
                 alone |-> TRUE, atRead |-> store,
                 prev |-> Earlier(lastDone)]]
  /\ outcome' = NoOutcome
  /\ UNCHANGED <<replies, history, ctx, now, conv, pending, hist, store, lastDone, delivered>>

\* lines 230-257: one turn of the loop, on the record results[i]
PollItem(p, fault) ==
  /\ poll[p].pc = "scan"
  /\ poll[p].i <= Len(poll[p].results)
  /\ fault \in {"none", "update", "log"}
  /\ LET rec == poll[p].results[poll[p].i]
     IN  IF ~IsDue(rec, poll[p].current_time)
           THEN /\ fault = "none"
                /\ poll' = [poll EXCEPT ![p].i = @ + 1]
                /\ UNCHANGED <<replies, history, ctx, store, lastDone>>
           ELSE /\ store' = IF fault = "update" THEN store ELSE StoreUpdate(store, rec)
                /\ poll' = [(IF fault = "update" THEN poll ELSE Disturb(poll, p)) EXCEPT
                              ![p].due_reminders = Append(@, DueEntry(rec)),
                              ![p].i = @ + 1,
                              ![p].pc = IF fault = "none" THEN "scan" ELSE "failed",
                              ![p].failed = fault # "none"]
                /\ lastDone' = IF fault = "update" THEN lastDone ELSE NoPoll
  /\ outcome' = NoOutcome
  /\ UNCHANGED <<replies, history, ctx, now, conv, pending, hist, delivered>>

\* a call without the handler of line 261: the exception reaches the caller
PollResultUncaught(pl) == [raised |-> pl.failed, value |-> pl.due_reminders]

\* What the call hands to its caller: due_reminders (line 259), or, an
\* exception raised in the try block being caught by line 261, [] (line 263).
PollResult(pl) ==
  [raised |-> FALSE, value |-> IF pl.failed THEN <<>> ELSE pl.due_reminders]

\* the call has handed res to its caller
Returned(p, res) ==
  /\ delivered' = [ id \in AllIds |->
                      delivered[id]
                      + Cardinality({ k \in DOMAIN res.value : res.value[k].id = id }) ]
  /\ lastDone' = [has |-> TRUE, raised |-> res.raised, ret |-> res.value,
                  failed |-> poll[p].failed, now |-> poll[p].current_time,
                  atRead |-> poll[p].atRead, atReturn |-> store,
                  alone |-> poll[p].alone, prev |-> poll[p].prev]

\* lines 259-263: the call returns
PollReturn(p) ==
  /\ \/ poll[p].pc = "failed"
     \/ poll[p].pc = "scan" /\ poll[p].i > Len(poll[p].results)
  /\ Returned(p, PollResult(poll[p]))
  /\ poll' = [poll EXCEPT ![p] = IdlePoll]
  /\ outcome' = NoOutcome
  /\ UNCHANGED <<replies, history, ctx, now, conv, pending, hist, store>>

\* action_executor.py lines 94-122: the handler of an inbound message stores
\* it in the MessageStore; an add under an id the collection holds adds nothing
StoreUserMessage(c, m) ==
  /\ Len(history) < MaxMessages
  /\ history' = IF \E i \in DOMAIN history : history[i].id = PinId(c, now)
                  THEN history
                  ELSE Append(history, UserRecord(c, UserName(c), m, now))
  /\ UNCHANGED <<now, ctx>>
  /\ UNCHANGED reminderVars
  /\ UNCHANGED replies

\* action_executor.py lines 192-204: the handler stores the reply it has sent
StoreReply(c, text) ==
  /\ Len(history) < MaxMessages
  /\ history' = Append(history, ReplyRecord(c, text, now, Len(history) + 1))
  /\ UNCHANGED <<now, ctx>>
  /\ UNCHANGED reminderVars
  /\ UNCHANGED replies

\* the reply text has been sent for the message m of chat c
Replied(c, m, text) ==
  replies' = Append(replies, [chat |-> c, message |-> m, text |-> text])

\* action_executor.py lines 186-204: create_reminder has returned k, its text
\* is sent and stored as a record of the MessageStore; withUser is the
\* MessageStore after the add of line 110
Answered(c, m, r, fault, k, withUser) ==
  /\ Created(c, r.decision, Append(hist[c], m), r.state, fault, k, FALSE)
  /\ history' = Append(withUser, ReplyRecord(c, k.text, now, Len(withUser) + 1))
  /\ Replied(c, m, k.text)

\* lines 177-206 on the decision r.decision, lc being that decision after the
\* last-chance extraction
ExecutedReminder(c, m, r, lc, withUser) ==
  \E fault \in FaultsFor(lc, now) :
  \E confirmation \in ConfirmationsFor(lc, now) :
    Answered(c, m, r, fault, Conclude(lc, now, store, r.state, fault, confirmation), withUser)

\* lines 275-285: an exception of the try block is answered with the fallback
\* text, of which no record is stored
ExecutedFallback(c, m, withUser) ==
  /\ history' = withUser
  /\ Replied(c, m, FallbackText)
  /\ UNCHANGED <<conv, hist, outcome, store, poll, lastDone>>

\* the turn of message m after the add of line 110 has left withUser
ExecutedTurn(c, m, xfault, r, withUser) ==
  IF xfault = "typing"
    THEN ExecutedFallback(c, m, withUser)
    ELSE ExecutedReminder(c, m, r, LastChance(r.decision, now), withUser)

\* action_executor.py lines 88-285, execute_action for an inbound message m of
\* chat c with the reminder intent: the message is stored, the decision of
\* process_reminder_intent is handed to create_reminder, the text returned is
\* sent and stored
ExecuteAction(c, m, xfault) ==
  /\ Len(hist[c]) < MaxTurns
  /\ Len(store) < MaxReminders
  /\ Len(replies) < MaxHandled
  /\ ExecutedTurn(c, m, xfault, ProcessReminderIntent(c, UserName(c), m, now, conv[c]),
                  HistoryAdd(history, UserRecord(c, UserName(c), m, now)))
  /\ UNCHANGED <<now, pending, delivered, ctx>>

\* conversation_context.py lines 135-142: get_time_window_context(c, minutes)
\* starts and reads the clock
ContextStart(c, minutes) ==
  /\ ctx.pc \in {"idle", "returned"}
  /\ ctx' = [IdleContext EXCEPT !.pc = "messages", !.chat_id = c,
                                !.current_time = now,
                                !.cutoff_time = CutoffTime(now, minutes)]
  /\ UNCHANGED <<now, history>>
  /\ UNCHANGED reminderVars
  /\ UNCHANGED replies

\* lines 146-170: the message records of the chat are read and filtered
ContextMessages(fault) ==
  /\ ctx.pc = "messages"
  /\ ctx' = IF fault = "get"
              THEN [ctx EXCEPT !.pc = "done", !.failed = TRUE]
              ELSE [ctx EXCEPT
                      !.pc = "reminders",
                      !.historyRead = history,
                      !.context_items =
                         MessageItems(OfChat(history, NumToStr(ctx.chat_id)), ctx.cutoff_time)]
  /\ UNCHANGED <<now, history>>
  /\ UNCHANGED reminderVars
  /\ UNCHANGED replies

\* lines 173-193: the reminder records of the chat are read and filtered
ContextReminders(fault) ==
  /\ ctx.pc = "reminders"
  /\ ctx' = IF fault = "get"
              THEN [ctx EXCEPT !.pc = "done", !.failed = TRUE]
              ELSE [ctx EXCEPT
                      !.pc = "done",
                      !.remindersRead = store,
                      !.context_items =
                         @ \o ReminderItems(OfChat(store, NumToStr(ctx.chat_id)), ctx.cutoff_time)]
  /\ UNCHANGED <<now, history>>
  /\ UNCHANGED reminderVars
  /\ UNCHANGED replies

\* What the call hands to its caller: the narrative of the sorted items
\* (lines 196-211), or, an exception raised in the try block being caught by
\* line 213, the error text (line 215).
ContextResult(c) ==
  [raised |-> FALSE,
   items |-> IF c.failed THEN <<>> ELSE SortByTime(c.context_items),
   ret |-> IF c.failed THEN <<ErrorContextText>>
           ELSE Narrative(SortByTime(c.context_items))]

\* the call has handed res to its caller
ContextReturned(res) ==
  ctx' = [ctx EXCEPT !.pc = "returned", !.raised = res.raised,
                     !.items = res.items, !.ret = res.ret]

\* lines 196-215: the call returns
ContextReturn ==
  /\ ctx.pc = "done"
  /\ ContextReturned(ContextResult(ctx))
  /\ UNCHANGED <<now, history>>
  /\ UNCHANGED reminderVars
  /\ UNCHANGED replies

Next ==
  \/ Tick
  \/ \E c \in Chats, m \in Messages : Handle(c, m)
  \/ \E p \in Schedulers, fault \in PollFaults : PollRead(p, fault)
  \/ \E p \in Schedulers, fault \in PollFaults : PollItem(p, fault)
  \/ \E p \in Schedulers : PollReturn(p)

\* message handling and the scheduler's one polling loop
Spec == Init /\ [][Next]_vars

NextOverlap ==
  \/ Tick
  \/ \E c \in OneChat, m \in Messages : Handle(c, m)
  \/ \E p \in Pollers, fault \in PollFaults : PollRead(p, fault)
  \/ \E p \in Pollers, fault \in PollFaults : PollItem(p, fault)
  \/ \E p \in Pollers : PollReturn(p)

\* message handling and two poll cycles that may overlap
SpecOverlap == Init /\ [][NextOverlap]_vars

\* the slot-filling engine alone: the caller calls process_reminder_intent and
\* create_reminder in separate steps
NextTurns ==
  \/ Tick
  \/ \E c \in OneChat, m \in TurnMessages : Process(c, m)
  \/ \E c \in OneChat : CreatePending(c)

SpecTurns == Init /\ [][NextTurns]_vars

\* create_reminder alone, on the decisions of the decision engine
NextCreate ==
  \/ Tick
  \/ \E c \in OneChat : CreatePending(c)

SpecCreate == InitCreate /\ [][NextCreate]_vars

\* one chat and the scheduler's polling loop
NextLive ==
  \/ Tick
  \/ \E c \in OneChat, m \in Messages : Handle(c, m)
  \/ \E p \in Schedulers, fault \in PollFaults : PollRead(p, fault)
  \/ \E p \in Schedulers, fault \in PollFaults : PollItem(p, fault)
  \/ \E p \in Schedulers : PollReturn(p)

\* The clock advances and the scheduler's loop keeps polling: a poll that can
\* start, go on or return does so, and the store's accesses do not fail forever.
Fairness ==
  /\ WF_vars(Tick)
  /\ \A p \in Schedulers :
       /\ SF_vars(PollRead(p, "none"))
       /\ SF_vars(PollItem(p, "none"))
       /\ WF_vars(PollReturn(p))

SpecLive == Init /\ [][NextLive]_vars /\ Fairness

\* message handling and calls of get_time_window_context, whose reads of the
\* two stores are steps of their own
NextContext ==
  \/ Tick
  \/ \E c \in Chats, m \in Messages : StoreUserMessage(c, m)
  \/ \E c \in Chats, text \in ReplyTexts : StoreReply(c, text)
  \/ \E c \in OneChat, m \in Messages : Handle(c, m)
  \/ \E c \in Chats, minutes \in WindowMinutes : ContextStart(c, minutes)
  \/ \E fault \in ContextFaults : ContextMessages(fault)
  \/ \E fault \in ContextFaults : ContextReminders(fault)
  \/ ContextReturn

SpecContext == Init /\ [][NextContext]_vars

\* the conversations of two chats, whose calls of process_reminder_intent and
\* create_reminder interleave
NextChats ==
  \/ Tick
  \/ \E c \in Chats, m \in ChatMessages : Process(c, m)
  \/ \E c \in Chats : CreatePending(c)

SpecChats == Init /\ [][NextChats]_vars

\* the handler of inbound messages alone
NextExecute ==
  \/ Tick
  \/ \E c \in Chats, m \in Messages, xfault \in ExecuteFaults : ExecuteAction(c, m, xfault)

SpecExecute == Init /\ [][NextExecute]_vars

\* ------------------------------------------------------------------------
\* Properties of check_due_reminders
\* ------------------------------------------------------------------------

\* the records of st that are incomplete and due at time t, in store order
DueAt(st, t) == SelectSeq(st, LAMBDA r : r.completed = "false" /\ r.due_at[2] <= t)

\* the entries a poll returns for the records rs
EntriesOf(rs) ==
  [ k \in DOMAIN rs |-> [id |-> rs[k].id, chat_id |-> rs[k].chat_id,
                         message |-> rs[k].document, user_name |-> rs[k].user_name] ]

\* st with the records that are incomplete and due at time t marked completed
Flipped(st, t) ==
  [ i \in DOMAIN st |->
      IF st[i].completed = "false" /\ st[i].due_at[2] <= t
        THEN [st[i] EXCEPT !.completed = "true"] ELSE st[i] ]

\* C1: no record is returned by check_due_reminders more than once, whatever
\* the interleaving of two poll cycles that overlap.
AtMostOnce == \A id \in AllIds : delivered[id] <= 1

\* C2: of two polls made one after the other, with no failure in the first,
\* no write to the store and no advance of the clock between them, the first
\* returns every record that is due and incomplete and the second returns the
\* empty list.
SecondPollEmpty ==
  (/\ lastDone.has
   /\ lastDone.prev # <<>>
   /\ ~lastDone.prev[1].failed
   /\ lastDone.atRead = lastDone.prev[1].atReturn
   /\ lastDone.now = lastDone.prev[1].now)
  => /\ lastDone.prev[1].ret = EntriesOf(DueAt(lastDone.prev[1].atRead, lastDone.prev[1].now))
     /\ lastDone.ret = <<>>

\* a second poll has returned nothing after a first one that returned a record
SecondPollEmptyWitness ==
  /\ lastDone.has /\ ~lastDone.failed
  /\ lastDone.prev # <<>>
  /\ ~lastDone.prev[1].failed
  /\ lastDone.atRead = lastDone.prev[1].atReturn
  /\ lastDone.now = lastDone.prev[1].now
  /\ Len(lastDone.prev[1].ret) >= 1
  /\ lastDone.ret = <<>>

\* C3: a poll that meets no failure and has the store to itself returns
\* exactly the records that are incomplete and due (due_at <= now) in the
\* store it read, and leaves that store with the returned records marked
\* completed and every other record as it was.
PollReturnsExactlyDue ==
  (lastDone.has /\ ~lastDone.failed /\ lastDone.alone)
  => /\ lastDone.ret = EntriesOf(DueAt(lastDone.atRead, lastDone.now))
     /\ lastDone.atReturn = Flipped(lastDone.atRead, lastDone.now)

\* a poll has returned a record due at this very second and left alone a
\* record due later
PollReturnsExactlyDueWitness ==
  /\ lastDone.has /\ ~lastDone.failed /\ lastDone.alone
  /\ \E k \in DOMAIN lastDone.ret :
       \E i \in DOMAIN lastDone.atRead :
         /\ lastDone.atRead[i].id = lastDone.ret[k].id
         /\ lastDone.atRead[i].due_at[2] = lastDone.now
  /\ \E i \in DOMAIN lastDone.atReturn :
       /\ lastDone.atReturn[i].due_at[2] > lastDone.now
       /\ lastDone.atReturn[i].completed = "false"

\* C4: every record create_reminder has persisted is returned by some poll
\* once the clock has passed its due_at, the scheduler's loop polling on.
EveryRecordReturned ==
  \A id \in AllIds :
    (\E i \in DOMAIN store : store[i].id = id /\ store[i].due_at[2] <= now)
      ~> (delivered[id] >= 1)

\* C5: check_due_reminders never raises to its caller; it returns the empty
\* list when no record is due and incomplete and when a store access fails.
PollNeverRaises ==
  lastDone.has
  => /\ ~lastDone.raised
     /\ lastDone.failed => lastDone.ret = <<>>
     /\ DueAt(lastDone.atRead, lastDone.now) = <<>> => lastDone.ret = <<>>

\* a poll whose store access failed while a record was due has returned the
\* empty list
PollNeverRaisesWitness ==
  /\ lastDone.has /\ lastDone.failed
  /\ DueAt(lastDone.atRead, lastDone.now) # <<>>
  /\ ~lastDone.raised
  /\ lastDone.ret = <<>>

\* ------------------------------------------------------------------------
\* Properties of process_reminder_intent and create_reminder
\* ------------------------------------------------------------------------

\* messages that carry content and no temporal marker, and messages that
\* are a time expression and nothing else
ContentOnly == {M_team_meeting}
TimeOnly == {M_in_30_minutes, M_5pm}

\* the records of after whose id before does not hold
AddedBy(before, after) ==
  SelectSeq(after, LAMBDA r : \A i \in DOMAIN before : before[i].id # r.id)

\* C6: after a content-only turn and a time-only turn on a chat that had no
\* ConversationState, process returns a ready decision, create_reminder on
\* it succeeds, and the record stored holds turn 1's text as its message and,
\* as its due_at, the extractor's result for turn 2's text at turn 2's time.
TwoTurnCompletion ==
  (/\ outcome.has
   /\ outcome.fault = "none"
   /\ Len(outcome.turns) = 2
   /\ outcome.turns[1] \in ContentOnly
   /\ outcome.turns[2] \in TimeOnly
   /\ outcome.d.original_message = outcome.turns[2]
   /\ \A i \in DOMAIN outcome.storeBefore :
        outcome.storeBefore[i].id # <<"reminder", outcome.chat, outcome.d.timestamp[1]>>)
  => /\ outcome.d.ready_to_create
     /\ outcome.success
     /\ Len(AddedBy(outcome.storeBefore, outcome.storeAfter)) = 1
     /\ AddedBy(outcome.storeBefore, outcome.storeAfter)[1].message = outcome.turns[1]
     /\ AddedBy(outcome.storeBefore, outcome.storeAfter)[1].due_at
          = <<"str", ExtractTime(outcome.turns[2], outcome.d.timestamp[1]).due[1]>>

CallMomContent ==
  \A c \in Chats :
    (pending[c].has /\ pending[c].d.original_message = M_call_mom_at_5pm)
    => /\ pending[c].d.ready_to_create
       /\ "reminder_message" \in pending[c].d.keys
       /\ pending[c].d.reminder_message = <<"t","o"," ","c","a","l","l"," ","m","o","m">>

\* "remind me to call mom at 5pm" has been processed
CallMomContentWitness ==
  \E c \in Chats :
    /\ pending[c].has
    /\ pending[c].d.original_message = M_call_mom_at_5pm
    /\ pending[c].d.ready_to_create

\* C8, as the specification has it: for "remind me to call mom at 5pm"
\* process returns ready_to_create = true with reminder_message "call mom".
CallMomContentAsSpecified ==
  \A c \in Chats :
    (pending[c].has /\ pending[c].d.original_message = M_call_mom_at_5pm)
    => /\ pending[c].d.ready_to_create
       /\ "reminder_message" \in pending[c].d.keys
       /\ pending[c].d.reminder_message = <<"c","a","l","l"," ","m","o","m">>

\* the list the not-ready report names for a decision: those of time and
\* message whose keys the decision does not hold
MissingList(d) ==
  IF "time_info" \notin d.keys /\ "due_time" \notin d.keys
    THEN (IF "reminder_message" \notin d.keys THEN "time, message" ELSE "time")
    ELSE (IF "reminder_message" \notin d.keys THEN "message" ELSE "")

ReadyButIncomplete ==
  (/\ outcome.has
   /\ outcome.d.ready_to_create
   /\ \/ "user_id" \notin outcome.d.keys \/ outcome.d.user_id = <<>>
      \/ "reminder_message" \notin outcome.d.keys \/ outcome.d.reminder_message = <<>>
      \/ "due_time" \notin outcome.d.keys \/ outcome.d.due_time = <<>>)
  => /\ ~outcome.success
     /\ outcome.text = "Missing essential reminder information"
     /\ outcome.storeAfter = outcome.storeBefore
     /\ outcome.stateAfter = outcome.stateBefore

\* a ready decision that has a chat id and a due_time and no reminder_message
\* has been refused while the chat had a ConversationState
ReadyButIncompleteWitness ==
  /\ outcome.has
  /\ outcome.d.ready_to_create
  /\ "user_id" \in outcome.d.keys
  /\ "due_time" \in outcome.d.keys /\ outcome.d.due_time # <<>>
  /\ "reminder_message" \notin outcome.d.keys
  /\ outcome.stateBefore.active
  /\ ~outcome.success
  /\ outcome.text = "Missing essential reminder information"
  /\ outcome.stateAfter.active

\* ------------------------------------------------------------------------
\* Properties of create_reminder's outcome
\* ------------------------------------------------------------------------

\* the decision of the call kept in outcome, after the last-chance extraction
OutcomeDecision == LastChance(outcome.d, outcome.now)

\* the call kept in outcome got as far as the try block of line 150
ReachedTry == outcome.has /\ OutcomeDecision.ready_to_create /\ Essential(OutcomeDecision)

\* C11: when the write of the record to the store fails, create_reminder
\* returns failure with the retry text, the store has no new record and the
\* chat's ConversationState is what it was before the call.
AddFailureKeepsState ==
  (outcome.has /\ outcome.fault = "add")
  => /\ ~outcome.success
     /\ outcome.text = "I had trouble setting that reminder. Please try again."
     /\ outcome.storeAfter = outcome.storeBefore
     /\ outcome.stateAfter = outcome.stateBefore

\* the add has failed for a chat that had a ConversationState, which is
\* still there
AddFailureKeepsStateWitness ==
  /\ outcome.has /\ outcome.fault = "add"
  /\ ~outcome.success
  /\ outcome.stateBefore.active
  /\ "reminder_message" \in outcome.stateBefore.details.keys
  /\ outcome.stateAfter = outcome.stateBefore
  /\ outcome.storeAfter = <<>>

\* C12: on every path where create_reminder returns failure, the chat's
\* ConversationState is unmodified and no record has been added.
FailureLeavesAllUnchanged ==
  (outcome.has /\ ~outcome.success)
  => /\ outcome.stateAfter = outcome.stateBefore
     /\ outcome.storeAfter = outcome.storeBefore

\* C13: the reminder flow clears a chat's ConversationState exactly when
\* create_reminder succeeds for that chat: a step that takes the state away
\* is a successful create_reminder, a successful create_reminder leaves no
\* active intent and no slots, and process_reminder_intent never clears it.
ClearedExactlyOnSuccess ==
  [][ /\ \A c \in Chats :
           (conv[c].active /\ ~conv'[c].active)
           => (outcome'.has /\ outcome'.chat = c /\ outcome'.success)
      /\ (outcome'.has /\ outcome'.success)
           => (~conv'[outcome'.chat].active /\ conv'[outcome'.chat].details.keys = {})
      /\ \A c \in Chats : (pending'[c].has /\ pending'[c] # pending[c]) => conv'[c].active
    ]_vars

\* C14: on a decision that reaches the store, create_reminder succeeds,
\* persists the record and clears the ConversationState whether the
\* ConfirmationGenerator answers acceptably, answers with an empty or
\* off-topic text, or fails; in the last two cases the text returned is the
\* templated confirmation.
ConfirmationIndependent ==
  (ReachedTry /\ outcome.fault \in {"none", "llm"})
  => /\ outcome.success
     /\ outcome.storeAfter = StoreAdd(outcome.storeBefore, RecordOf(OutcomeDecision, outcome.now))
     /\ ~outcome.stateAfter.active
     /\ (outcome.fault = "llm" \/ outcome.generated \in {<<C_empty>>, <<C_offtopic>>})
          => outcome.text
               = "I'll remind you about '" \o Str(OutcomeDecision.reminder_message) \o "' "
                   \o TimePhrase(OutcomeDecision.due_time[1], OutcomeDecision.time_str) \o "."

\* a text of the ConfirmationGenerator that passes the filter: not empty,
\* more than 20 characters, with the keyword "remind"
PassesFilter(g) == g # <<>> /\ Len(g) > 20 /\ Contains(Lower(g), L_remind)

EveryCreationStored ==
  (outcome.has /\ outcome.success)
  => /\ Len(outcome.storeAfter) = Len(outcome.storeBefore) + 1
     /\ \A i \in DOMAIN outcome.storeBefore :
          outcome.storeBefore[i].id # outcome.storeAfter[Len(outcome.storeAfter)].id
     /\ \A i, j \in DOMAIN outcome.storeAfter :
          outcome.storeAfter[i].id = outcome.storeAfter[j].id => i = j

\* ------------------------------------------------------------------------
\* Properties of the records of the ReminderStore
\* ------------------------------------------------------------------------

\* the step is a turn of poller p's loop that has written completed = "true"
\* for a due record (lines 245-248) and gone on
WroteFlip(p) ==
  /\ poll[p].pc = "scan" /\ poll'[p].pc = "scan"
  /\ poll'[p].i = poll[p].i + 1
  /\ poll[p].results[poll[p].i].due_at[2] <= poll[p].current_time

\* C16: every record of the store has a due_at and was created with
\* completed = "false"; after its creation a record changes only by the
\* write of a poll that sets completed from "false" to "true", no other field
\* changes and completed never goes back; that write is made at most once per
\* record, so a poll writes it only for a record the store holds as
\* incomplete; process_reminder_intent and create_reminder leave the records
\* the store holds as they are.
RecordLifecycle ==
  [][ /\ \A i \in DOMAIN store' : store'[i].due_at[1] = "str" /\ store'[i].due_at[2] > 0
      /\ Len(store') >= Len(store)
      /\ \A i \in DOMAIN store' \ DOMAIN store : store'[i].completed = "false"
      /\ \A i \in DOMAIN store :
           \/ store'[i] = store[i]
           \/ /\ store[i].completed = "false"
              /\ store'[i] = [store[i] EXCEPT !.completed = "true"]
              /\ \E p \in Pollers : poll[p].pc = "scan" /\ poll'[p].i = poll[p].i + 1
      /\ \A p \in Pollers :
           WroteFlip(p)
           => \E i \in DOMAIN store :
                /\ store[i].id = poll[p].results[poll[p].i].id
                /\ store[i].completed = "false"
    ]_vars

\* ------------------------------------------------------------------------
\* Properties of get_time_window_context
\* ------------------------------------------------------------------------

\* the call has returned a narrative
ReturnedNarrative == ctx.pc = "returned" /\ ~ctx.failed /\ ctx.items # <<>>

\* the items of s whose time is t, in the order of s
AtTime(s, t) == SelectSeq(s, LAMBDA x : x.time = t)

\* C18: the lines of a narrative are one sequence of messages and reminders
\* in non-decreasing order of time: a header, then one line for each item, no
\* line before a line of an earlier time, and the items of one time in the
\* order in which they were retrieved (messages in store order, then
\* reminders in store order).
NarrativeInTimeOrder ==
  ReturnedNarrative =>
    /\ Len(ctx.ret) = Len(ctx.context_items) + 1
    /\ ctx.ret[1] = ContextHeader
    /\ Len(ctx.items) = Len(ctx.context_items)
    /\ \A k \in DOMAIN ctx.items : ctx.ret[k + 1] = ItemLine(ctx.items[k])
    /\ \A k \in 1..(Len(ctx.items) - 1) : ctx.items[k].time <= ctx.items[k + 1].time
    /\ \A j \in DOMAIN ctx.context_items :
         AtTime(ctx.items, ctx.context_items[j].time)
           = AtTime(ctx.context_items, ctx.context_items[j].time)

\* a narrative whose reminder line stands before the line of a later message,
\* the message having been retrieved first
NarrativeInTimeOrderWitness ==
  /\ ReturnedNarrative
  /\ \E k \in 1..(Len(ctx.items) - 1) :
       /\ ctx.items[k].type = "reminder"
       /\ ctx.items[k + 1].type = "message"
       /\ ctx.items[k].time < ctx.items[k + 1].time
       /\ ctx.ret[k + 1] = "[System] Reminder set: team meeting 5pm"
       /\ ctx.ret[k + 2] = "Ann: team meeting 5pm"

\* the call c has returned without a failure of a store access
ReturnedContext(c) == c.pc = "returned" /\ ~c.failed

\* t lies in the closed interval [now - windowMinutes * 60, now] of the call
\* c, now being the clock value the call read
InClosedWindow(t, c) == c.cutoff_time <= t /\ t <= c.current_time

\* the records of the chat of the call c, among those the call read from the
\* two stores, whose time lies in the closed interval of the call
MessagesInWindow(c) ==
  SelectSeq(c.historyRead,
            LAMBDA r : /\ r.chat_id = NumToStr(c.chat_id)
                       /\ InClosedWindow(StrToFloat(r.timestamp), c))
RemindersInWindow(c) ==
  SelectSeq(c.remindersRead,
            LAMBDA r : /\ r.chat_id = NumToStr(c.chat_id)
                       /\ InClosedWindow(StrToFloat(r.created_at), c))

\* C19: the items a call renders are exactly the records of its chat whose
\* time lies in [now - windowMinutes * 60, now]: no record of another chat,
\* none older than the interval, none later than the now the call read.
RenderedExactlyWindow ==
  ReturnedContext(ctx) =>
    /\ Len(ctx.context_items) = Len(MessagesInWindow(ctx)) + Len(RemindersInWindow(ctx))
    /\ \A k \in DOMAIN MessagesInWindow(ctx) :
         ctx.context_items[k] = MessageItem(MessagesInWindow(ctx)[k])
    /\ \A k \in DOMAIN RemindersInWindow(ctx) :
         ctx.context_items[Len(MessagesInWindow(ctx)) + k]
           = ReminderItem(RemindersInWindow(ctx)[k])

\* C20: a call never raises and never modifies the MessageStore or the
\* ReminderStore; it returns "No recent context available." when no record
\* falls in the window, "Error retrieving context." when a store access
\* fails, and the narrative otherwise.
ContextDegradesSafely ==
  [][ /\ ctx' # ctx => (store' = store /\ history' = history)
      /\ ctx'.pc = "returned" =>
           /\ ~ctx'.raised
           /\ ctx'.failed => ctx'.ret = <<ErrorContextText>>
           /\ (~ctx'.failed /\ MessagesInWindow(ctx') \o RemindersInWindow(ctx') = <<>>)
                => ctx'.ret = <<NoContextText>>
           /\ (~ctx'.failed /\ MessagesInWindow(ctx') \o RemindersInWindow(ctx') # <<>>)
                => /\ Len(ctx'.ret) > 1
                   /\ ctx'.ret[1] = ContextHeader
    ]_vars

\* ------------------------------------------------------------------------
\* Properties of a poll that fails partway
\* ------------------------------------------------------------------------

\* the ids of the records that are incomplete in st and completed in the
\* store left, which has the records of st at the same places
MarkedBetween(st, left) ==
  { st[i].id : i \in { j \in DOMAIN st : /\ j \in DOMAIN left
                                         /\ st[j].completed = "false"
                                         /\ left[j].completed = "true" } }

\* C22: every record a check_due_reminders call marks completed is in the
\* list the same call returns, also when a store access or the event log
\* fails partway: a call that fails and returns the empty list has marked
\* no record.
MarkedAreReturned ==
  (lastDone.has /\ lastDone.alone)
  => \A id \in MarkedBetween(lastDone.atRead, lastDone.atReturn) :
       \E k \in DOMAIN lastDone.ret : lastDone.ret[k].id = id

\* ------------------------------------------------------------------------
\* Properties of the slots of a ready decision
\* ------------------------------------------------------------------------

\* the decision d carries every slot a reminder needs
HasRequiredSlots(d) ==
  /\ "reminder_message" \in d.keys /\ d.reminder_message # <<>>
  /\ "due_time" \in d.keys /\ d.due_time # None

\* C23: a decision process_reminder_intent returns with ready_to_create = true
\* carries a non-empty reminder_message and a due_time, also when the
\* extractor found nothing in a message lines 28 and 41 took for a time
\* expression; create_reminder on such a decision does not return the
\* missing-essential-information text.
ReadyHasRequiredSlots ==
  /\ \A c \in OneChat :
       (pending[c].has /\ pending[c].d.ready_to_create) => HasRequiredSlots(pending[c].d)
  /\ (outcome.has /\ outcome.d.ready_to_create) => outcome.text # EssentialText

\* process_reminder_intent has processed the message m for chat c in this step
ProcessedTurn(c, m) == hist'[c] = Append(hist[c], m)

\* the slot names of a time expression
TimeSlotNames == {"time_info", "due_time", "time_str"}

\* the slots named in names are in det what they are in old
SameSlots(det, old, names) ==
  /\ det.keys \cap names = old.keys \cap names
  /\ "time_info" \in names => det.time_info = old.time_info
  /\ "due_time" \in names => det.due_time = old.due_time
  /\ "time_str" \in names => det.time_str = old.time_str
  /\ "reminder_message" \in names => det.reminder_message = old.reminder_message

\* C24: in a fill over several turns a later message overwrites the slots it
\* carries and leaves the others as they were: a time-only message stores its
\* own time_info, due_time and time_str, whatever an earlier time-only message
\* had left there, and keeps a stored reminder_message; a content-only message
\* keeps the stored time slots; and the record of a reminder created
\* afterwards has the stored due_time, that of the last time-only message.
LaterSlotOverwrites ==
  [][ \A c \in OneChat :
        /\ \A m \in TimeOnly :
             ProcessedTurn(c, m) =>
               /\ TimeSlotNames \subseteq conv'[c].details.keys
               /\ conv'[c].details.time_info = m
               /\ conv'[c].details.due_time = ExtractTime(m, now).due
               /\ conv'[c].details.time_str = ExtractTime(m, now).str
               /\ SameSlots(conv'[c].details, Details(conv[c]), {"reminder_message"})
        /\ \A m \in ContentOnly :
             ProcessedTurn(c, m) =>
               /\ "reminder_message" \in conv'[c].details.keys
               /\ conv'[c].details.reminder_message = m
               /\ SameSlots(conv'[c].details, Details(conv[c]), TimeSlotNames)
        /\ (/\ outcome'.has /\ outcome'.chat = c /\ outcome'.success
            /\ conv[c].active
            /\ Len(store') = Len(store) + 1)
           => /\ "due_time" \in conv[c].details.keys
              /\ conv[c].details.due_time # None
              /\ store'[Len(store')].due_at = NumToStr(Val(conv[c].details.due_time))
    ]_vars

\* C26: on a chat without ConversationState a time-only message m1 followed
\* by a content-only message m2 completes the fill: process_reminder_intent
\* returns ready_to_create = false for m1 and ready_to_create = true for m2,
\* with the due_time and time_str the extractor gives for m1 at the time of
\* turn 1 and with m2, whole, as the reminder_message.
TimeThenContent ==
  [][ \A c \in OneChat : \A m1 \in TimeOnly : \A m2 \in ContentOnly :
        /\ (hist[c] = <<>> /\ ~conv[c].active /\ ProcessedTurn(c, m1))
           => /\ pending'[c].has
              /\ ~pending'[c].d.ready_to_create
        /\ (/\ hist[c] = <<m1>>
            /\ pending[c].has /\ pending[c].d.original_message = m1
            /\ ProcessedTurn(c, m2))
           => /\ pending'[c].has
              /\ pending'[c].d.ready_to_create
              /\ {"due_time", "time_str", "reminder_message"} \subseteq pending'[c].d.keys
              /\ pending'[c].d.due_time = ExtractTime(m1, Val(pending[c].d.timestamp)).due
              /\ pending'[c].d.time_str = ExtractTime(m1, Val(pending[c].d.timestamp)).str
              /\ pending'[c].d.reminder_message = m2
    ]_vars

\* ------------------------------------------------------------------------
\* Properties of the conversations of different chats
\* ------------------------------------------------------------------------

\* every chat but c has the ConversationState it had
OthersUnchanged(c) == \A c2 \in Chats \ {c} : conv'[c2] = conv[c2]

\* C25: process_reminder_intent and create_reminder for one chat leave the
\* ConversationState of every other chat as it was, and what they return and
\* leave for their chat is what they return and leave when the other chats
\* have no state and no record, however the calls of the chats interleave.
ChatsIndependent ==
  [][ \A c \in Chats :
        /\ \A m \in ChatMessages :
             ProcessedTurn(c, m) =>
               /\ OthersUnchanged(c)
               /\ [decision |-> pending'[c].d, state |-> conv'[c]]
                    = ProcessReminderIntent(c, UserName(c), m, now, conv[c])
        /\ (outcome'.has /\ outcome'.chat = c /\ outcome' # outcome) =>
             /\ OthersUnchanged(c)
             /\ \E confirmation \in Confirmations :
                  /\ outcome'.success
                       = CreateReminder(outcome'.d, now, OfChat(store, NumToStr(c)), conv[c],
                                        outcome'.fault, confirmation).success
                  /\ outcome'.text
                       = CreateReminder(outcome'.d, now, OfChat(store, NumToStr(c)), conv[c],
                                        outcome'.fault, confirmation).text
                  /\ conv'[c]
                       = CreateReminder(outcome'.d, now, OfChat(store, NumToStr(c)), conv[c],
                                        outcome'.fault, confirmation).state
    ]_vars

\* create_reminder has succeeded for chat 2 while chat 1 is in the middle of
\* a fill and chat 1's record of the same second is in the store
ChatsIndependentWitness ==
  /\ outcome.has /\ outcome.chat = 2 /\ outcome.success
  /\ conv[1].active /\ conv[1].details.reminder_message = M_team_meeting
  /\ hist[1] = <<M_team_meeting>>
  /\ Len(outcome.storeBefore) = 1 /\ Len(outcome.storeAfter) = 2
  /\ outcome.storeBefore[1].chat_id = NumToStr(1)
  /\ outcome.storeBefore[1].created_at = outcome.storeAfter[2].created_at

\* ------------------------------------------------------------------------
\* Properties of the MessageStore
\* ------------------------------------------------------------------------

\* execute_action has handled a turn in this step
HandledTurn == Len(replies') = Len(replies) + 1

\* C21: every turn execute_action handles with the reminder intent adds to
\* the MessageStore one record of the user with the inbound text and, behind
\* it, one record of the assistant with the reply that was sent, and leaves
\* the records the store held as they were: also for two messages of one
\* chat in the same second and when the fallback reply is sent.
TurnAddsItsRecords ==
  [][ HandledTurn =>
        /\ Len(history') = Len(history) + 2
        /\ SubSeq(history', 1, Len(history)) = history
        /\ history'[Len(history) + 1].is_user = "true"
        /\ history'[Len(history) + 1].chat_id = NumToStr(replies'[Len(replies')].chat)
        /\ history'[Len(history) + 1].document = replies'[Len(replies')].message
        /\ history'[Len(history) + 2].is_user = "false"
        /\ history'[Len(history) + 2].chat_id = NumToStr(replies'[Len(replies')].chat)
        /\ history'[Len(history) + 2].document = replies'[Len(replies')].text
    ]_vars

====
